---- MODULE Spec2Model ----
(***************************************************************************)
(* The autograd arena of aksi_nn (src/value.rs) with the part of the       *)
(* training loop that touches it (src/net.rs Neuron::new, src/main.rs      *)
(* parameter update).                                                      *)
(*                                                                         *)
(* Handles (CtxIdx) are the 0-based positions of the Rust Vec; the arena   *)
(* is the sequence `values`, so the node of handle h is values[h + 1].     *)
(*                                                                         *)
(* Numbers.  An f64 is modelled as a small float format: a fixed-point     *)
(* number with one decimal digit (the integer x stands for x / One), with  *)
(* every operation rounded toward zero to that grid, overflowing to a      *)
(* non-finite element beyond MaxFinite and underflowing to 0.  The IEEE    *)
(* non-finite values (NaN, +Infinity, -Infinity) are merged in the single  *)
(* element NaN.  Sums, differences and products of integers are exact, as  *)
(* they are in f64 in the range explored.                                  *)
(***************************************************************************)
EXTENDS Integers, Sequences, FiniteSets

VARIABLES values, params, epoch, pc, idx, out, visited, call, hist, cap

vars == <<values, params, epoch, pc, idx, out, visited, call, hist, cap>>

----------------------------------------------------------------------------
(* Bounds of the exploration *)

\* the arena holds at most MaxNodes nodes (fewer in the specifications with
\* more operations)
MaxNodes == 4
\* sum() is called with at most MaxSum handles
MaxSum == 2
\* Neuron::new is called with n_inputs in 1..MaxInputs
MaxInputs == 1
\* stored values stay within [-MaxAbs, MaxAbs] (in units of 1.0)
MaxAbs == 6
\* main runs at most MaxEpochs parameter updates (epochs of the loop)
MaxEpochs == 1
\* largest finite magnitude of the float format, in grid units
MaxFinite == 100000

----------------------------------------------------------------------------
(* The float format *)

\* learning_rate = 0.1 (main.rs) is one step of the grid
learning_rate == 1

\* 1.0 on the grid: ten steps of 0.1
One == 10 * learning_rate

\* the non-finite element (NaN and the infinities)
NaN == -(2^30)

Abs(x) == IF x < 0 THEN -x ELSE x

Sign(x) == IF x < 0 THEN -1 ELSE 1

\* the result of an operation: overflow gives a non-finite value
Norm(x) == IF x > MaxFinite \/ x < -MaxFinite THEN NaN ELSE x

\* a + b
FAdd(a, b) == IF a = NaN \/ b = NaN THEN NaN ELSE Norm(a + b)

\* a - b
FSub(a, b) == IF a = NaN \/ b = NaN THEN NaN ELSE Norm(a - b)

\* a * b, rounded toward zero; the product is split so that no intermediate
\* leaves the 32-bit range
FMul(a, b) ==
    IF a = NaN \/ b = NaN THEN NaN
    ELSE LET x == Abs(a)
             y == Abs(b)
             m == (x \div One) * y + ((x % One) * y) \div One
         IN  Norm(Sign(a) * Sign(b) * m)

\* a / b, rounded toward zero; x / 0 is non-finite
FDiv(a, b) ==
    IF a = NaN \/ b = NaN \/ b = 0 THEN NaN
    ELSE Norm(Sign(a) * Sign(b) * ((Abs(a) * One) \div Abs(b)))

\* e^(k/10) on the grid for k = ExpLo .. ExpHi
ExpLo == 0 - 23

ExpTab ==
  << 1, 1, 1, 1, 1, 1, 1, 2, 2, 2, 2, 3,
     3, 3, 4, 4, 4, 5, 6, 6, 7, 8, 9, 10,
     11, 12, 13, 14, 16, 18, 20, 22, 24, 27, 30, 33,
     36, 40, 44, 49, 54, 60, 66, 73, 81, 90, 99, 110,
     121, 134, 148, 164, 181, 200, 221, 245, 271, 299, 331, 365,
     404, 447, 494, 545, 603, 666, 736, 814, 900, 994, 1099, 1215,
     1342, 1484, 1640, 1812, 2003, 2214, 2446, 2704, 2988, 3302, 3650, 4034,
     4458, 4927, 5445, 6018, 6651, 7350, 8124, 8978, 9922, 10966, 12119, 13394,
     14802, 16359, 18080, 19981, 22083, 24406, 26972, 29809, 32944, 36409, 40238, 44470,
     49147, 54316, 60029, 66342, 73319, 81030, 89552, 98971 >>

ExpHi == ExpLo + Len(ExpTab) - 1

\* f64::exp: underflows to 0, overflows to +Infinity
FExp(a) ==
    IF a = NaN THEN NaN
    ELSE IF a < ExpLo THEN 0
    ELSE IF a > ExpHi THEN NaN
    ELSE Norm(ExpTab[a - ExpLo + 1])

\* ln(a/10) on the grid for a = 1 .. 100
LnTab ==
  << -23, -16, -12, -9, -6, -5, -3, -2, -1, 0, 0, 1, 2, 3, 4, 4, 5, 5, 6, 6,
     7, 7, 8, 8, 9, 9, 9, 10, 10, 10, 11, 11, 11, 12, 12, 12, 13, 13, 13, 13,
     14, 14, 14, 14, 15, 15, 15, 15, 15, 16, 16, 16, 16, 16, 17, 17, 17, 17, 17, 17,
     18, 18, 18, 18, 18, 18, 19, 19, 19, 19, 19, 19, 19, 20, 20, 20, 20, 20, 20, 20,
     20, 21, 21, 21, 21, 21, 21, 21, 21, 21, 22, 22, 22, 22, 22, 22, 22, 22, 22, 23 >>

\* f64::ln: ln of a negative number is NaN, ln(0) is -Infinity; above the
\* table the logarithm is read off the table of exp
FLn(a) ==
    IF a = NaN \/ a <= 0 THEN NaN
    ELSE IF a <= Len(LnTab) THEN LnTab[a]
    ELSE IF a >= ExpTab[Len(ExpTab)] THEN ExpHi
    ELSE CHOOSE k \in 0..(ExpHi - 1) :
            ExpTab[k - ExpLo + 1] <= a /\ a < ExpTab[k - ExpLo + 2]

RECURSIVE IPow(_, _)
\* a^n for a natural number n, by repeated multiplication
IPow(a, n) == IF n = 0 THEN One ELSE FMul(IPow(a, n - 1), a)

\* f64::powf(a, b)
FPow(a, b) ==
    IF b = 0 \/ a = One THEN One
    ELSE IF a = NaN \/ b = NaN THEN NaN
    ELSE IF b % One = 0
         THEN IF b > 0 THEN IPow(a, b \div One)
              ELSE FDiv(One, IPow(a, (-b) \div One))
    ELSE IF a < 0 THEN NaN
    ELSE IF a = 0 THEN (IF b > 0 THEN 0 ELSE NaN)
    ELSE FExp(FMul(b, FLn(a)))

\* the closure of Context::tanh, with E.powf(x) = e^x
TanhF(a) ==
    LET x == FSub(FExp(FMul(2 * One, a)), One)
        y == FAdd(FExp(FMul(2 * One, a)), One)
    IN  FDiv(x, y)

\* the closure each builder hands to apply_op
Closure(op_type, a, b) ==
    CASE op_type = "Add"  -> FAdd(a, b)
      [] op_type = "Sub"  -> FSub(a, b)
      [] op_type = "Mul"  -> FMul(a, b)
      [] op_type = "Div"  -> FDiv(a, b)
      [] op_type = "Pow"  -> FPow(a, b)
      [] op_type = "Exp"  -> FExp(a)
      [] op_type = "Tanh" -> TanhF(a)

\* the values explored: non-finite, or within the bound MaxAbs
InRange(x) == x = NaN \/ Abs(x) <= MaxAbs * One

----------------------------------------------------------------------------
(* Nodes *)

OpType == {"Add", "Sub", "Mul", "Div", "Tanh", "Pow", "Exp"}

\* Option<Operation>: None is the empty tuple, Some((t, [a, b])) is <<t, a, b>>
None == << >>

\* Value::new
NewValue(data, op) == [data |-> data, grad |-> 0, op |-> op]

\* Value::new_const
NewConst(data) == [data |-> data, grad |-> 0, op |-> None]

\* values.len()
NumNodes == Len(values)

\* the handles this arena has issued
Handles == 0..(NumNodes - 1)

\* an index the Vec accepts
InBounds(vals, h) == h >= 0 /\ h < Len(vals)

\* self.values[h]
At(h) == values[h + 1]

\* the inputs explored for a handle: every issued handle and one never issued
AnyHandle == 0..NumNodes

\* leaf values pushed by the caller, and parameter values drawn by the Rng
PushVals == {2 * One, 3 * One, -One}

ArithVals == {2 * One, 3 * One}

ParamVals == {-One, One \div 2}

NoCall == [name |-> "new", args |-> << >>, ret |-> << >>]

NoHist == [valid |-> FALSE, out |-> 0, grads |-> << >>, runs |-> 0]

Grads(vals) == [i \in 1..Len(vals) |-> vals[i].grad]

----------------------------------------------------------------------------
(* Initial state: Context::new(), no parameter yet; the exploration stops at *)
(* k nodes                                                                  *)

Init(k) ==
    /\ cap = k
    /\ values = << >>
    /\ params = {}
    /\ epoch = 0
    /\ pc = "idle"
    /\ idx = 0
    /\ out = 0
    /\ visited = << >>
    /\ call = NoCall
    /\ hist = NoHist

\* values[idx] with idx out of bounds: the thread panics, the arena is left
\* as it is at that moment (vals)
Panic(name, args, vals) ==
    /\ pc' = "panicked"
    /\ values' = vals
    /\ call' = [name |-> name, args |-> args, ret |-> << >>]
    /\ UNCHANGED <<params, idx, out, visited, epoch>>

\* a call that returns r and leaves the arena as vals; the locals of an
\* earlier backward are gone
Return(name, args, r, vals) ==
    /\ values' = vals
    /\ call' = [name |-> name, args |-> args, ret |-> r]
    /\ out' = 0
    /\ visited' = << >>
    /\ UNCHANGED <<pc, idx>>

\* push_val inserting the node in front
PushFront(vals, val) == <<val>> \o vals

\* Context::push_val on the arena vals
PushVal(vals, val) == Append(vals, val)

\* Context::push
push(val) ==
    /\ pc = "idle"
    /\ NumNodes < cap
    /\ Return("push", << >>, <<NumNodes>>, PushVal(values, NewConst(val)))
    /\ UNCHANGED <<params, epoch>>

\* value with the index clamped to the last node
value_clamped(h) ==
    /\ pc = "idle"
    /\ NumNodes > 0
    /\ Return("value", <<h>>,
              <<values[IF h < NumNodes THEN h + 1 ELSE NumNodes].data>>, values)
    /\ UNCHANGED <<params, epoch>>

\* Context::value
value(h) ==
    /\ pc = "idle"
    /\ IF InBounds(values, h)
       THEN Return("value", <<h>>, <<At(h).data>>, values)
            /\ UNCHANGED <<params, epoch>>
       ELSE Panic("value", <<h>>, values)

\* Context::grad
grad(h) ==
    /\ pc = "idle"
    /\ IF InBounds(values, h)
       THEN Return("grad", <<h>>, <<At(h).grad>>, values)
            /\ UNCHANGED <<params, epoch>>
       ELSE Panic("grad", <<h>>, values)

\* Context::clear_grad
clear_grad(h) ==
    /\ pc = "idle"
    /\ IF InBounds(values, h)
       THEN Return("clear_grad", <<h>>, << >>,
                   [values EXCEPT ![h + 1].grad = 0])
            /\ UNCHANGED <<params, epoch>>
       ELSE Panic("clear_grad", <<h>>, values)

\* apply_op with the operands recorded one too high (positions counted from 1)
OperandsFromOne(idx1, idx2) == <<idx1 + 1, idx2 + 1>>

\* the operands apply_op records in the new node
Operands(idx1, idx2) == <<idx1, idx2>>

\* Context::apply_op on the arena vals: the arena with the new node
ApplyOpVals(vals, idx1, idx2, op_type) ==
    PushVal(vals, NewValue(Closure(op_type, vals[idx1 + 1].data,
                                            vals[idx2 + 1].data),
                           <<op_type>> \o Operands(idx1, idx2)))

\* Context::apply_op; name is the builder that calls it
apply_op(name, args, idx1, idx2, op_type) ==
    /\ pc = "idle"
    /\ IF InBounds(values, idx1) /\ InBounds(values, idx2)
       THEN /\ NumNodes < cap
            /\ InRange(Closure(op_type, At(idx1).data, At(idx2).data))
            /\ Return(name, args, <<NumNodes>>,
                      ApplyOpVals(values, idx1, idx2, op_type))
            /\ UNCHANGED <<params, epoch>>
       ELSE Panic(name, args, values)

add(idx1, idx2) == apply_op("add", <<idx1, idx2>>, idx1, idx2, "Add")

sub(idx1, idx2) == apply_op("sub", <<idx1, idx2>>, idx1, idx2, "Sub")

mul(idx1, idx2) == apply_op("mul", <<idx1, idx2>>, idx1, idx2, "Mul")

div(idx1, idx2) == apply_op("div", <<idx1, idx2>>, idx1, idx2, "Div")

pow(base_idx, exponent_idx) ==
    apply_op("pow", <<base_idx, exponent_idx>>, base_idx, exponent_idx, "Pow")

\* the second operand exp and tanh record
Placeholder == 0

exp(h) == apply_op("exp", <<h>>, h, Placeholder, "Exp")

tanh(h) == apply_op("tanh", <<h>>, h, Placeholder, "Tanh")

\* the fold keeping its first accumulator
FoldAccKept(a, r) == a

\* the accumulator of the fold after self.add(a, b) returned r
FoldAcc(a, r) == r

RECURSIVE SumFold(_, _, _, _)
\* the fold of Context::sum from the k-th index on: a is the accumulator;
\* the result is <<arena, completed, a>>, completed FALSE when add panicked
SumFold(vals, a, indices, k) ==
    IF k > Len(indices) THEN <<vals, TRUE, a>>
    ELSE IF ~InBounds(vals, indices[k]) THEN <<vals, FALSE, a>>
    ELSE SumFold(ApplyOpVals(vals, a, indices[k], "Add"),
                 FoldAcc(a, Len(vals)), indices, k + 1)

\* Context::sum
sum(indices) ==
    /\ pc = "idle"
    /\ NumNodes + Len(indices) + 1 <= cap
    /\ LET r == SumFold(PushVal(values, NewConst(0)), NumNodes, indices, 1)
       IN  /\ \A i \in 1..Len(r[1]) : InRange(r[1][i].data)
           /\ IF r[2]
              THEN Return("sum", indices, <<r[3]>>, r[1])
                   /\ UNCHANGED <<params, epoch>>
              ELSE Panic("sum", indices, r[1])

----------------------------------------------------------------------------
(* Neuron::new and the parameter update of main *)

\* Neuron::new: the bias, then n_inputs weights, each ctx.push(rng.range(-1, 1));
\* drawn[1] is the bias, the rest the weights.  parameters() yields them all.
neuron_new(drawn) ==
    /\ pc = "idle"
    /\ NumNodes + Len(drawn) <= cap
    /\ Return("neuron_new", << >>, <<NumNodes>>,
              values \o [i \in 1..Len(drawn) |-> NewConst(drawn[i])])
    /\ params' = params \cup (NumNodes..(NumNodes + Len(drawn) - 1))
    /\ UNCHANGED epoch

\* the update written to every node of the arena
OverwrittenAll == Handles

\* the handles main overwrites: mlp.parameters()
Overwritten == params

\* the new value of a parameter: value(param) - learning_rate * grad(param)
Update(val) == FSub(val.data, FMul(learning_rate, val.grad))

\* main: for param in mlp.parameters() { ... get_mut(param).data = update }
step ==
    /\ pc = "idle"
    /\ epoch < MaxEpochs
    /\ epoch' = epoch + 1
    /\ \A p \in Overwritten : InRange(Update(At(p)))
    /\ Return("step", << >>, << >>,
              [i \in 1..NumNodes |->
                  IF (i - 1) \in Overwritten
                  THEN [values[i] EXCEPT !.data = Update(values[i])]
                  ELSE values[i]])
    /\ UNCHANGED params

----------------------------------------------------------------------------
(* Context::backward *)

\* values[h].grad = d: the contribution replaces the grad
AddGradAssign(vals, h, d) == [vals EXCEPT ![h + 1].grad = d]

\* values[h].grad += d
AddGrad(vals, h, d) == [vals EXCEPT ![h + 1].grad = FAdd(@, d)]

\* values[h].grad += d where the source has -=
SubGradPlus(vals, h, d) == [vals EXCEPT ![h + 1].grad = FAdd(@, d)]

\* values[h].grad -= d
SubGrad(vals, h, d) == [vals EXCEPT ![h + 1].grad = FSub(@, d)]

\* backward without the reset of the grads
NoReset(vals) == vals

\* self.values.iter_mut().for_each(|v| v.grad = 0.0)
ResetGrads(vals) == [i \in 1..Len(vals) |-> [vals[i] EXCEPT !.grad = 0]]

\* one iteration of the loop of backward, for the node at position i: the
\* statements of the matching arm, in their order
BackwardNode(vals, i) ==
    LET val == vals[i + 1]
        g(v) == v[i + 1].grad
    IN  IF val.op = None THEN vals
        ELSE
        LET optype == val.op[1]
            idx_a  == val.op[2]
            idx_b  == val.op[3]
            a      == vals[idx_a + 1].data
            b      == vals[idx_b + 1].data
        IN  CASE optype = "Add" ->
                   LET v1 == AddGrad(vals, idx_a, g(vals))
                   IN  AddGrad(v1, idx_b, g(v1))
              [] optype = "Sub" ->
                   LET v1 == AddGrad(vals, idx_a, g(vals))
                   IN  SubGrad(v1, idx_b, g(v1))
              [] optype = "Mul" ->
                   LET v1 == AddGrad(vals, idx_a, FMul(b, g(vals)))
                   IN  AddGrad(v1, idx_b, FMul(a, g(v1)))
              [] optype = "Div" ->
                   LET v1 == AddGrad(vals, idx_a, FMul(FDiv(One, b), g(vals)))
                   IN  SubGrad(v1, idx_b, FMul(FDiv(a, FMul(b, b)), g(v1)))
              [] optype = "Pow" ->
                   LET v1 == AddGrad(vals, idx_a,
                                 FMul(FMul(b, FPow(a, FSub(b, One))), g(vals)))
                   IN  AddGrad(v1, idx_b,
                               FMul(FMul(FPow(a, b), g(v1)), FLn(a)))
              [] optype = "Tanh" ->
                   AddGrad(vals, idx_a,
                           FMul(FSub(One, FMul(val.data, val.data)), g(vals)))
              [] optype = "Exp" ->
                   AddGrad(vals, idx_a, FMul(FExp(a), g(vals)))

\* the loop starting at the last node of the arena
SweepFromLast(output_idx) == Len(values) - 1

\* the first position the loop visits
SweepStart(output_idx) == output_idx

\* the loop visiting every other position
SweepSkip(i) == i - 2

\* the position the loop visits after i
SweepNext(i) == i - 1

\* the loop is over after the visit of i
SweepLast(i) == i = 0

\* backward, up to the loop: reset every grad, seed the output node
backward(output_idx) ==
    /\ pc = "idle"
    /\ LET reset == ResetGrads(values)
       IN  IF InBounds(values, output_idx)
           THEN /\ values' = [reset EXCEPT ![output_idx + 1].grad = One]
                /\ pc' = "sweep"
                /\ idx' = SweepStart(output_idx)
                /\ out' = output_idx
                /\ visited' = << >>
                /\ call' = [name |-> "backward", args |-> <<output_idx>>,
                            ret |-> << >>]
                /\ UNCHANGED <<params, epoch>>
           ELSE Panic("backward", <<output_idx>>, reset)

\* one iteration of the loop of backward; after the last one backward returns
backward_step ==
    /\ pc = "sweep"
    /\ values' = BackwardNode(values, idx)
    /\ visited' = Append(visited, idx)
    /\ IF SweepLast(idx)
       THEN /\ pc' = "idle"
            /\ idx' = 0
       ELSE /\ idx' = SweepNext(idx)
            /\ UNCHANGED pc
    /\ UNCHANGED <<params, out, call, epoch>>

----------------------------------------------------------------------------
(* The specifications *)

\* the lists of handles passed to sum, with handles drawn from H
Indices(H) == UNION {[1..n -> H] : n \in 0..MaxSum}

\* the values the Rng draws for one neuron
Drawn == UNION {[1..(n + 1) -> ParamVals] : n \in 1..MaxInputs}

\* the builders add, sub and mul
Arith(H) ==
    \/ \E a, b \in H : add(a, b)
    \/ \E a, b \in H : sub(a, b)
    \/ \E a, b \in H : mul(a, b)

\* the other builders
Others(H) ==
    \/ \E a, b \in H : div(a, b)
    \/ \E a, b \in H : pow(a, b)
    \/ \E h \in H : exp(h)
    \/ \E h \in H : tanh(h)

\* backward, from the call to the return
Sweep(H) ==
    \/ \E o \in H : backward(o)
    \/ backward_step

\* pushes, builders and backward of value.rs, called with issued handles only
Next ==
    /\ \/ \E v \in PushVals : push(v)
       \/ Arith(Handles)
       \/ Others(Handles)
       \/ \E indices \in Indices(Handles) : sum(indices)
       \/ Sweep(Handles)
    /\ UNCHANGED <<hist, cap>>

Spec == Init(MaxNodes - 1) /\ [][Next]_vars

\* graphs of add, sub and mul over pushed leaves, and backward
NextArith ==
    /\ \/ \E v \in ArithVals : push(v)
       \/ Arith(Handles)
       \/ Sweep(Handles)
    /\ UNCHANGED <<hist, cap>>

SpecArith == Init(MaxNodes) /\ [][NextArith]_vars

\* backward is a synchronous call: once called, its loop runs to the end
SpecSweep ==
    /\ Init(MaxNodes - 1)
    /\ [][NextArith]_vars
    /\ WF_vars(backward_step /\ UNCHANGED <<hist, cap>>)

\* the operations of the training loop (main, Neuron::new, Neuron::forward)
NextTrain ==
    /\ \/ push(2 * One)
       \/ \E drawn \in Drawn : neuron_new(drawn)
       \/ \E a, b \in Handles : add(a, b) \/ mul(a, b)
       \/ \E h \in Handles : tanh(h)
       \/ \E indices \in Indices(Handles) : sum(indices)
       \/ \E h \in params : clear_grad(h)
       \/ Sweep(Handles)
       \/ step
    /\ UNCHANGED <<hist, cap>>

SpecTrain == Init(MaxNodes - 1) /\ [][NextTrain]_vars

\* parameters, nodes derived from them, backward and the parameter update
NextSnap ==
    /\ \/ \E drawn \in Drawn : neuron_new(drawn)
       \/ \E a, b \in Handles : mul(a, b)
       \/ \E h \in Handles : tanh(h)
       \/ Sweep(Handles \ params)
       \/ step
    /\ UNCHANGED <<hist, cap>>

SpecSnap == Init(MaxNodes) /\ [][NextSnap]_vars

\* sums of leaves and products
NextSum ==
    /\ \/ \E v \in PushVals : push(v)
       \/ \E a, b \in Handles : mul(a, b)
       \/ \E indices \in Indices(Handles) : sum(indices)
    /\ UNCHANGED <<hist, cap>>

SpecSum == Init(MaxNodes + 1) /\ [][NextSum]_vars

\* every operation of value.rs, called with any handle
NextInvalid ==
    /\ \/ \E v \in PushVals : push(v)
       \/ \E h \in AnyHandle : value(h)
       \/ \E h \in AnyHandle : grad(h)
       \/ \E h \in AnyHandle : clear_grad(h)
       \/ Arith(AnyHandle)
       \/ Others(AnyHandle)
       \/ \E indices \in Indices(AnyHandle) : sum(indices)
       \/ Sweep(AnyHandle)
    /\ UNCHANGED <<hist, cap>>

SpecInvalid == Init(MaxNodes - 2) /\ [][NextInvalid]_vars

\* what the last completed backward left, as long as the graph and the values
\* are the ones it saw; runs tells whether the backward before it, with
\* nothing but clear_grad in between, was for the same output
Track ==
    IF pc = "sweep" /\ pc' = "idle"
    THEN [valid |-> TRUE, out |-> out, grads |-> Grads(values'),
          runs |-> IF hist.valid /\ hist.out = out THEN 2 ELSE 1]
    ELSE IF call'.name \in {"clear_grad", "backward"}
    THEN hist
    ELSE NoHist

\* backward called again and again
NextIdem ==
    /\ \/ \E v \in ArithVals : push(v)
       \/ \E a, b \in Handles : add(a, b)
       \/ \E a, b \in Handles : mul(a, b)
       \/ \E h \in Handles : exp(h)
       \/ \E h \in Handles : clear_grad(h)
       \/ Sweep(Handles)
    /\ hist' = Track
    /\ UNCHANGED cap

SpecIdem == Init(MaxNodes) /\ [][NextIdem]_vars

----------------------------------------------------------------------------
(* Properties *)

\* the nodes that carry an operation
Derived == {h \in Handles : At(h).op # None}

\* backward(o) has returned and nothing was called since
Completed == pc = "idle" /\ call.name = "backward"

\* C1: every node that carries an operation records two operand handles that
\* are both strictly lower than the node's own position (the placeholder 0 of
\* exp and tanh included), so the insertion order is a topological order.
C1_Acyclic ==
    \A h \in Derived :
        /\ At(h).op[2] >= 0 /\ At(h).op[2] < h
        /\ At(h).op[3] >= 0 /\ At(h).op[3] < h

\* C1 witness: exp or tanh was applied to a node other than the first one, so
\* the recorded placeholder 0 is an operand distinct from the read one.
C1_Witness ==
    /\ pc = "idle"
    /\ call.name \in {"exp", "tanh"}
    /\ At(NumNodes - 1).op[2] > 0
    /\ At(NumNodes - 1).op[3] = 0

RECURSIVE Deriv(_, _)
\* the derivative of node o with respect to node n: the sum over the operand
\* paths from o down to n of the products of the local derivatives
Deriv(o, n) ==
    IF o = n THEN One
    ELSE IF At(o).op = None THEN 0
    ELSE LET t == At(o).op[1]
             a == At(o).op[2]
             b == At(o).op[3]
             da == CASE t = "Add" -> One
                     [] t = "Sub" -> One
                     [] t = "Mul" -> At(b).data
             db == CASE t = "Add" -> One
                     [] t = "Sub" -> -One
                     [] t = "Mul" -> At(a).data
         IN  FAdd(FMul(da, Deriv(a, n)), FMul(db, Deriv(b, n)))

\* C2: in a graph of add, sub and mul over integer leaves, after backward(o)
\* the grad of every node n at a position <= o is the derivative of o with
\* respect to n (the path sum of the local derivatives), and grad(o) = 1.
C2_ChainRule ==
    Completed =>
        /\ At(out).grad = One
        /\ \A n \in 0..out : At(n).grad = Deriv(out, n)

\* the nodes at positions <= o that have n as an operand
Users(n, o) == {h \in Derived : h <= o /\ (At(h).op[2] = n \/ At(h).op[3] = n)}

\* C2 witness: backward has run on a product at the end of a four-node graph in
\* which one node is an operand of two later nodes (fan-out).
C2_Witness ==
    /\ Completed
    /\ out = 3
    /\ out \in Derived
    /\ At(out).op[1] = "Mul"
    /\ \E n \in 0..out : Cardinality(Users(n, out)) >= 2 /\ At(n).grad > One

\* the builder applied to two leaves a and b, or to the leaf a, whose result
\* backward has just been run on
LeafOp(t, a, b) ==
    /\ Completed
    /\ At(out).op # None
    /\ At(out).op = <<t, a, b>>
    /\ At(a).op = None
    /\ At(b).op = None

\* the partial derivatives of a builder's result at the operand values a and b
\* (section 4.1 of the specification, with g = 1)
PartialA(t, a, b) ==
    CASE t = "Add"  -> One
      [] t = "Sub"  -> One
      [] t = "Mul"  -> b
      [] t = "Div"  -> FDiv(One, b)
      [] t = "Pow"  -> FMul(b, FPow(a, FSub(b, One)))
      [] t = "Exp"  -> FExp(a)
      [] t = "Tanh" -> FSub(One, FMul(TanhF(a), TanhF(a)))

PartialB(t, a, b) ==
    CASE t = "Add"  -> One
      [] t = "Sub"  -> -One
      [] t = "Mul"  -> a
      [] t = "Div"  -> FSub(0, FDiv(a, FMul(b, b)))
      [] t = "Pow"  -> FMul(FPow(a, b), FLn(a))

Binary == {"Add", "Sub", "Mul", "Div", "Pow"}

Unary == {"Exp", "Tanh"}

\* the local derivatives backward computes at node h are finite
Finite(h) ==
    LET t == At(h).op[1]
        a == At(At(h).op[2]).data
        b == At(At(h).op[3]).data
    IN  /\ PartialA(t, a, b) # NaN
        /\ t \in Binary => PartialB(t, a, b) # NaN

\* every node below the output that carries an operation has finite local
\* derivatives: visited with grad 0, it adds 0 to its operands
Quiet == \A h \in Derived : h < out => Finite(h)

\* a unary builder on the leaf a: its derivative goes to a, nothing goes to the
\* placeholder at position 0 unless a is that node
UnaryGrads ==
    \A t \in Unary : \A a \in Handles :
        LeafOp(t, a, 0) =>
            /\ At(a).grad = PartialA(t, At(a).data, 0)
            /\ a # 0 => At(0).grad = 0

\* C3 as stated: after backward on the result of a builder applied to the
\* leaves a and b, the same handle or not, grad(a) and grad(b) are the two
\* partial derivatives - add (1, 1), sub (1, -1), mul (value(b), value(a)) -
\* and a unary builder contributes to its operand only.
C3_Original ==
    /\ \A t \in Binary : \A a, b \in Handles :
          LeafOp(t, a, b) =>
              /\ At(a).grad = PartialA(t, At(a).data, At(b).data)
              /\ At(b).grad = PartialB(t, At(a).data, At(b).data)
    /\ UnaryGrads

\* C3 amended: the pair of partial derivatives is what two distinct leaves
\* get; when a and b are the same handle its grad is the two partial
\* derivatives accumulated (add 2, sub 0, mul 2 * value(a)); and this holds
\* when the nodes below the result have finite local derivatives (a node
\* with a non-finite one, such as pow with a negative base, is visited with
\* grad 0 and adds 0 * NaN = NaN to its operands).
C3_Partials ==
    Quiet =>
        /\ \A t \in Binary : \A a, b \in Handles :
              LeafOp(t, a, b) =>
                  LET pa == PartialA(t, At(a).data, At(b).data)
                      pb == PartialB(t, At(a).data, At(b).data)
                  IN  IF a # b
                      THEN At(a).grad = pa /\ At(b).grad = pb
                      ELSE At(a).grad = FAdd(pa, pb)
        /\ UnaryGrads

\* C3 witness: a = 2, b = 3, c = mul(a, b) has value 6 and after backward(c)
\* grad(a) = 3 and grad(b) = 2.
C3_Witness ==
    /\ LeafOp("Mul", 0, 1)
    /\ At(0).data = 2 * One /\ At(1).data = 3 * One
    /\ At(2).data = 6 * One
    /\ At(0).grad = 3 * One /\ At(1).grad = 2 * One

\* C5: backward(o) never visits a position above o, and when it has returned
\* every node above o has grad 0.
C5_Prefix ==
    (pc = "sweep" \/ Completed) =>
        /\ \A k \in 1..Len(visited) : visited[k] <= out
        /\ \A h \in Handles : h > out => At(h).grad = 0

\* C5 witness: backward has returned for an output o that carries an
\* operation and is itself an operand of a later node.
C5_Witness ==
    /\ Completed
    /\ out \in Derived
    /\ \E h \in Derived : h > out /\ (At(h).op[2] = out \/ At(h).op[3] = out)
    /\ \E n \in 0..(out - 1) : At(n).grad # 0

\* C4: when backward(o) returns and the backward before it was backward(o)
\* too, with no push, builder or value overwrite in between, every grad is
\* what it was when that earlier call returned.
C4_Idempotent ==
    [][(pc = "sweep" /\ pc' = "idle" /\ hist.valid /\ hist.out = out)
          => Grads(values') = hist.grads]_vars

\* C4 witness: backward has returned for the second time in a row on an
\* output that carries an operation, leaving a grad other than 0 below it.
C4_Witness ==
    /\ Completed
    /\ hist.runs = 2
    /\ out \in Derived
    /\ \E n \in 0..(out - 1) : At(n).grad # 0

\* the positions o, o - 1, ..., in descending order, n of them
Desc(o, n) == [k \in 1..n |-> o - k + 1]

\* the loop has visited o down to idx + 1; when backward has returned, o down
\* to 0
SweepOrder ==
    /\ pc = "sweep" => idx \in 0..out /\ visited = Desc(out, out - idx)
    /\ Completed => visited = Desc(out, out + 1)

\* the visit of node idx changes the grad of no node at idx or above: of no
\* node visited so far
SweepFinal ==
    pc = "sweep" =>
        \A h \in Handles : h >= idx => values'[h + 1].grad = At(h).grad

\* C6: backward(o) visits o, o - 1, ..., 0 in this order, each once, and
\* returns; no step of the sweep changes the grad of a node already visited.
C6_Sweep ==
    /\ []SweepOrder
    /\ [][SweepFinal]_vars
    /\ (pc = "sweep") ~> Completed

\* C6 witness: backward has returned after three visits, in a graph where a
\* node received its grad from two later nodes.
C6_Witness ==
    /\ Completed
    /\ visited = <<2, 1, 0>>
    /\ \E n \in 0..out : Cardinality(Users(n, out)) >= 2 /\ At(n).grad # 0

RECURSIVE SumOf(_, _, _)
\* the sum of the values in vals of the handles indices[k], indices[k + 1], ...
SumOf(vals, indices, k) ==
    IF k > Len(indices) THEN 0
    ELSE FAdd(vals[indices[k] + 1].data, SumOf(vals, indices, k + 1))

\* C7: sum(handles), for n valid handles, appends n + 1 nodes: a leaf of
\* value 0, then n Add nodes, the k-th with the operands [previous
\* accumulator, handles[k]]; it returns the last one, whose value is the sum
\* of the listed values.
C7_Sum ==
    [][(call'.name = "sum" /\ pc' = "idle") =>
          LET n == Len(call'.args)
              L == Len(values)
          IN  /\ Len(values') = L + n + 1
              /\ SubSeq(values', 1, L) = values
              /\ values'[L + 1] = NewConst(0)
              /\ \A k \in 1..n :
                    /\ values'[L + 1 + k].op = <<"Add", L + k - 1, call'.args[k]>>
                    /\ values'[L + 1 + k].grad = 0
              /\ call'.ret = <<L + n>>
              /\ values'[L + n + 1].data = SumOf(values, call'.args, 1)]_vars

\* C7 witness: sum has returned for two distinct handles of different values.
C7_Witness ==
    /\ pc = "idle"
    /\ call.name = "sum"
    /\ Len(call.args) = 2
    /\ call.args[1] # call.args[2]
    /\ At(call.args[1]).data # At(call.args[2]).data
    /\ At(call.ret[1]).data = At(call.args[1]).data + At(call.args[2]).data

\* the calls that take handles, sum apart
HandleCalls ==
    {"value", "grad", "clear_grad", "add", "sub", "mul", "div", "pow", "exp",
     "tanh", "backward"}

\* the step is a call of one of HandleCalls with a handle never issued
InvalidCall ==
    /\ pc = "idle"
    /\ call'.name \in HandleCalls
    /\ \E k \in 1..Len(call'.args) : ~InBounds(values, call'.args[k])

\* value, op and arena size are what they were
SameData ==
    /\ Len(values') = Len(values)
    /\ \A i \in 1..Len(values) :
          values'[i].data = values[i].data /\ values'[i].op = values[i].op

\* C8 as stated: a call with a handle never issued ends in a panic, returns
\* nothing and modifies no node.
C8_Original ==
    [][InvalidCall =>
          pc' = "panicked" /\ call'.ret = << >> /\ values' = values]_vars

\* C8 amended: a call with a handle never issued ends in a panic and returns
\* nothing; it changes no value, no op and not the size; value, grad,
\* clear_grad and the builders change no grad either, while backward has by
\* then reset every grad to 0 (it seeds no node).
C8_FailLoudly ==
    [][InvalidCall =>
          /\ pc' = "panicked"
          /\ call'.ret = << >>
          /\ SameData
          /\ IF call'.name = "backward"
             THEN \A i \in 1..Len(values) : values'[i].grad = 0
             ELSE values' = values]_vars

\* C8 witness: backward panicked on a handle never issued, in an arena that
\* holds a node with an operation.
C8_Witness ==
    /\ pc = "panicked"
    /\ call.name = "backward"
    /\ Derived # {}

BuilderCalls == {"add", "sub", "mul", "div", "pow", "exp", "tanh"}

\* the step is the parameter update of main
IsStep == epoch' = epoch + 1

\* the step is a push or a builder that returns
IsAppend ==
    pc = "idle" /\ pc' = "idle" /\ call'.name \in BuilderCalls \cup {"push"}

\* C9: the parameter update changes the values of the parameter leaves only:
\* every value of a derived node, every op and every grad stay; and a builder
\* stores the result computed from the values its operands hold at the call.
C9_Snapshot ==
    [][/\ IsStep =>
             /\ Len(values') = Len(values)
             /\ \A i \in 1..Len(values) :
                   /\ values'[i].op = values[i].op
                   /\ values'[i].grad = values[i].grad
                   /\ ((i - 1) \notin params \/ values[i].op # None)
                         => values'[i].data = values[i].data
                   /\ (i - 1) \in params
                         => values'[i].data = Update(values[i])
       /\ (IsAppend /\ call'.name \in BuilderCalls) =>
             LET new == values'[Len(values')]
             IN  new.data = Closure(new.op[1], At(new.op[2]).data,
                                               At(new.op[3]).data)]_vars

\* C9 witness: after a parameter update, two nodes with the same operation
\* and operands hold different values: the one built before the update kept
\* its value, the one built after it used the new value.
C9_Witness ==
    /\ epoch >= 1
    /\ \E i, j \in Derived :
          /\ i < j
          /\ At(i).op = At(j).op
          /\ At(i).data # At(j).data
          /\ At(j).data = Closure(At(j).op[1], At(At(j).op[2]).data,
                                               At(At(j).op[3]).data)

\* C10: the arena never shrinks and no op ever changes; a push or a builder
\* appends one node, with grad 0, at the position it returns, and leaves the
\* nodes there were unchanged; backward and clear_grad change no value and
\* not the size; a value that changes is the value of a parameter leaf.
C10_AppendOnly ==
    [][/\ Len(values') >= Len(values)
       /\ \A i \in 1..Len(values) :
             /\ values'[i].op = values[i].op
             /\ values'[i].data # values[i].data
                   => values[i].op = None /\ (i - 1) \in params
       /\ IsAppend =>
             /\ Len(values') = Len(values) + 1
             /\ values'[Len(values')].grad = 0
             /\ call'.ret = <<Len(values)>>
             /\ SubSeq(values', 1, Len(values)) = values
       /\ (pc = "sweep" \/ call'.name \in {"backward", "clear_grad"})
             => SameData]_vars

\* C10 witness: the parameter update has changed the value of a parameter
\* that is an operand of a derived node, and backward has run since.
C10_Witness ==
    /\ epoch = 1
    /\ Completed
    /\ \E h \in Derived :
          /\ At(h).op[2] \in params
          /\ At(h).data # Closure(At(h).op[1], At(At(h).op[2]).data,
                                                At(At(h).op[3]).data)

====
